---- MODULE Spec2Model ----
(***************************************************************************)
(* Model of napari_time_slicer/_workflow.py: the Workflow task graph, the  *)
(* WorkflowManager bound to a viewer's layers, and the thread_worker loop  *)
(* that recomputes invalid layers.                                         *)
(*                                                                         *)
(* A layer of the viewer is a record of the store: it has a payload        *)
(* (layer.data), a validity flag (layer.metadata["workflow_valid"], which  *)
(* may be unset) and the connection of its data event to                   *)
(* _layer_data_updated (made by _layer_added only).                        *)
(***************************************************************************)
EXTENDS Integers, Sequences, FiniteSets, TLC

\* ---------------------------------------------------------------- bounds
\* Payloads are the integers 0 .. NumValues-1.
NumValues == 2
\* Number of foreground events (viewer events and manager calls) in a run.
MaxEvents == 4
\* Number of foreground events in a short run.
MaxSmallEvents == 3
\* Number of foreground events in a run of the fairly scheduled specification.
MaxFairEvents == 2
\* Number of calls of Workflow.set and Workflow.remove in a run on a Workflow alone.
MaxCalls == 3
\* Number of names that name no layer of the viewer when the manager is installed.
MaxMissing == 1

\* Names of layers.
Names == {"A", "B", "C", "D", "E"}

Values == 0 .. (NumValues - 1)
None == "None"

VARIABLES
    tasks,      \* Workflow._tasks: the dict, as the sequence of its items in insertion order
    has,        \* names n for which viewer.layers[n] exists
    data,       \* layer.data of each layer
    valid,      \* layer.metadata[METADATA_WORKFLOW_VALID_KEY]: "unset", "True" or "False"
    connected,  \* whether layer.events.data is connected to _layer_data_updated
    bgpc,       \* position of the thread worker inside loop_run / _update_invalid_layer
    bgLayer,    \* the layer object the worker holds: its name, whether it is still
                \* in the viewer, whether its data event is connected; and, as
                \* history, whether the name had a recipe when the scan selected it
    bgResult,   \* the value _compute returned to the worker
    bgErr,      \* the exception that ended the worker, or None
    yielded,    \* value yielded by loop_run and not yet delivered to update_layer
    nEvents     \* foreground events so far

vars == <<tasks, has, data, valid, connected, bgpc, bgLayer, bgResult, bgErr, yielded, nEvents>>

\* ---------------------------------------------------------------- values
\* An argument bound in a recipe: a string (isinstance(a, str)) or another value.
Str(n) == [k |-> "str", s |-> n, v |-> 0]
Val(x) == [k |-> "val", s |-> "", v |-> x]
\* An array, as layer.data is: iterating it yields no string.
Arr(x) == [k |-> "arr", s |-> "", v |-> x]

METADATA_WORKFLOW_VALID_KEY == "workflow_valid"
Unset == "unset"

NoLayerHeld == [name |-> None, attached |-> FALSE, connected |-> FALSE, recipe |-> FALSE]
NothingYielded == [name |-> "empty", data |-> 0]

\* ------------------------------------------------------- recipe functions
\* Declared parameters of the functions recorded in recipes: inc(x), sub(x, y=1).
Arity(fn) == IF fn = "inc" THEN 1 ELSE 2
Params(fn) == IF fn = "inc" THEN <<"x">> ELSE <<"x", "y">>
Defaults(fn) == IF fn = "inc" THEN <<>> ELSE <<Val(1)>>
MinArgs(fn) == Arity(fn) - Len(Defaults(fn))

\* function(*arguments): raises when handed a string instead of a payload.
CanApply(fn, rs) == \A i \in 1..Len(rs) : rs[i].k = "val"
Apply(fn, rs) ==
    IF fn = "inc" THEN (rs[1].v + 1) % NumValues
    ELSE (rs[1].v - rs[2].v + NumValues) % NumValues

\* ------------------------------------------------------------- Workflow
TaskNames(t) == {t[i].name : i \in 1..Len(t)}
IndexOf(t, n) == CHOOSE i \in 1..Len(t) : t[i].name = n

\* **kwargs: a function from parameter names to arguments; none given.
NoKwargs == <<>>
\* func_or_data of an entry that holds a value instead of a function, and the
\* value of an entry that holds a function.
NotCallable == "not callable"
NoLiteral == [k |-> "none", s |-> "", v |-> 0]

\* sig.bind(*args, **kwargs) succeeds: no parameter is given twice or left without
\* a value, and no unknown one is named (a TypeError otherwise).
CanBind(fn, args, kwargs) ==
    /\ Len(args) <= Arity(fn)
    /\ DOMAIN kwargs \subseteq {Params(fn)[i] : i \in (Len(args) + 1)..Arity(fn)}
    /\ \A i \in (Len(args) + 1)..MinArgs(fn) : Params(fn)[i] \in DOMAIN kwargs

\* bound.arguments without bound.apply_defaults(): the arguments the call gave.
BindArgsWithoutDefaults(fn, args, kwargs) ==
    LET given == {i \in 1..Arity(fn) : i <= Len(args) \/ Params(fn)[i] \in DOMAIN kwargs}
    IN [i \in 1..Cardinality(given) |->
           IF i <= Len(args) THEN args[i] ELSE kwargs[Params(fn)[i]]]

\* sig.bind(*args, **kwargs); bound.apply_defaults(): the values of bound.arguments,
\* which are in the order the parameters are declared.
BindArgs(fn, args, kwargs) ==
    [i \in 1..Arity(fn) |->
        IF i <= Len(args) THEN args[i]
        ELSE IF Params(fn)[i] \in DOMAIN kwargs THEN kwargs[Params(fn)[i]]
        ELSE Defaults(fn)[i - MinArgs(fn)]]

\* self._tasks[name] = value: the dict keeps the position of an existing key.
StoreTask(t, e) ==
    IF e.name \in TaskNames(t) THEN [t EXCEPT ![IndexOf(t, e.name)] = e] ELSE Append(t, e)

\* Workflow.set with a callable
WorkflowSet(t, n, fn, args, kwargs) ==
    StoreTask(t, [name |-> n, fn |-> fn, args |-> BindArgs(fn, args, kwargs), lit |-> NoLiteral])

\* Workflow.set with a value that is not callable
WorkflowSetLiteral(t, n, value) ==
    StoreTask(t, [name |-> n, fn |-> NotCallable, args |-> <<>>, lit |-> value])

\* Workflow.remove
WorkflowRemove(t, n) == SelectSeq(t, LAMBDA e : e.name # n)

\* Workflow.get_task: the entry of n (a KeyError when n is no key).
GetTask(t, n) == t[IndexOf(t, n)]

\* `for source in task` raises TypeError: the task is a value that cannot be
\* iterated (a number, None).
TaskRaises(e) == e.fn = NotCallable /\ e.lit.k = "val"

\* The strings `for source in task` yields: the string arguments after the function;
\* for a stored string, its characters (a name is one character); for an array, none.
StrArgs(e) ==
    IF e.fn = NotCallable THEN (IF e.lit.k = "str" THEN <<e.lit>> ELSE <<>>)
    ELSE SelectSeq(e.args, LAMBDA a : a.k = "str")
SeqToSet(s) == {s[i] : i \in 1..Len(s)}
\* the list s followed by x unless s holds x already
AppendNew(s, x) == IF x \in SeqToSet(s) THEN s ELSE Append(s, x)

RECURSIVE AppendAllNew(_, _)
AppendAllNew(s, xs) ==
    IF xs = <<>> THEN s ELSE AppendAllNew(AppendNew(s, Head(xs)), Tail(xs))

\* Workflow.sources_of
SourcesOf(t, item) ==
    IF item \notin TaskNames(t) THEN <<>>
    ELSE LET sa == StrArgs(GetTask(t, item)) IN [i \in 1..Len(sa) |-> sa[i].s]

\* Workflow.sources_of raises TypeError: the comprehension iterates item's task.
SourcesOfRaises(t, item) == item \in TaskNames(t) /\ TaskRaises(GetTask(t, item))

\* Workflow.roots and Workflow.followers_of raise TypeError: they iterate every task.
RootsRaises(t) == \E i \in 1..Len(t) : TaskRaises(t[i])
FollowersOfRaises(t, item) == \E i \in 1..Len(t) : TaskRaises(t[i])

\* Workflow.get_task raises KeyError: name is no key of the dict.
GetTaskRaises(t, n) == n \notin TaskNames(t)

\* Workflow.roots: in the order of first occurrence
RECURSIVE RootsFrom(_, _, _)
RootsFrom(t, i, origins) ==
    IF i > Len(t) THEN origins
    ELSE LET src == SourcesOf(t, t[i].name)
             new == SelectSeq(src, LAMBDA s : s \notin TaskNames(t))
         IN RootsFrom(t, i + 1, AppendAllNew(origins, new))
Roots(t) == RootsFrom(t, 1, <<>>)

\* Workflow.followers_of: in the order of the dict
RECURSIVE FollowersFrom(_, _, _, _)
FollowersFrom(t, item, i, followers) ==
    IF i > Len(t) THEN followers
    ELSE FollowersFrom(t, item, i + 1,
            IF item \in SeqToSet(SourcesOf(t, t[i].name))
            THEN AppendNew(followers, t[i].name) ELSE followers)
FollowersOf(t, item) == FollowersFrom(t, item, 1, <<>>)

\* -------------------------------------------------------- WorkflowManager
\* _viewer_has_layer(viewer, name)
ViewerHasLayer(h, n) == n \in h

\* _layer_invalid with the KeyError of an unset flag answered by True.
LayerInvalidUnlessTrue(v, n) == v[n] # "True"

\* _layer_invalid(layer): the flag is set and equals False
LayerInvalid(v, n) == v[n] = "False"

\* invalidate without the recursive call: the items alone are marked.
RECURSIVE InvalidateWithoutRecursion(_, _, _, _)
InvalidateWithoutRecursion(t, h, v, items) ==
    IF items = <<>> THEN v
    ELSE InvalidateWithoutRecursion(t, h,
            IF ViewerHasLayer(h, Head(items)) THEN [v EXCEPT ![Head(items)] = "False"] ELSE v,
            Tail(items))

\* invalidate assigning the negation of the flag (`not layer.metadata[...]`, true
\* for a flag that is unset) instead of False.
RECURSIVE InvalidateNegatingFlag(_, _, _, _)
InvalidateNegatingFlag(t, h, v, items) ==
    IF items = <<>> THEN v
    ELSE LET f == Head(items)
             v1 == IF ViewerHasLayer(h, f)
                   THEN InvalidateNegatingFlag(t, h,
                           [v EXCEPT ![f] = IF v[f] = "True" THEN "False" ELSE "True"],
                           FollowersOf(t, f))
                   ELSE v
         IN InvalidateNegatingFlag(t, h, v1, Tail(items))

\* WorkflowManager.invalidate(items): the validity flags afterwards
RECURSIVE Invalidate(_, _, _, _)
Invalidate(t, h, v, items) ==
    IF items = <<>> THEN v
    ELSE LET f == Head(items)
             v1 == IF ViewerHasLayer(h, f)
                   THEN Invalidate(t, h, [v EXCEPT ![f] = "False"], FollowersOf(t, f))
                   ELSE v
         IN Invalidate(t, h, v1, Tail(items))

\* first loop of _search_first_invalid_layer: the first item that has an invalid layer
RECURSIVE FirstInvalidIn(_, _, _)
FirstInvalidIn(h, v, items) ==
    IF items = <<>> THEN None
    ELSE IF ViewerHasLayer(h, Head(items)) /\ LayerInvalid(v, Head(items)) THEN Head(items)
    ELSE FirstInvalidIn(h, v, Tail(items))

\* WorkflowManager._search_first_invalid_layer(items): a name, or None
RECURSIVE SearchFirstInvalidLayer(_, _, _, _)
RECURSIVE SearchFollowers(_, _, _, _)
SearchFirstInvalidLayer(t, h, v, items) ==
    LET hit == FirstInvalidIn(h, v, items)
    IN IF hit # None THEN hit ELSE SearchFollowers(t, h, v, items)
\* second loop of _search_first_invalid_layer
SearchFollowers(t, h, v, items) ==
    IF items = <<>> THEN None
    ELSE LET invalid_follower == SearchFirstInvalidLayer(t, h, v, FollowersOf(t, Head(items)))
         IN IF invalid_follower # None THEN invalid_follower
            ELSE SearchFollowers(t, h, v, Tail(items))

\* loop of _layer_data_updated over the followers fs of the event's source
RECURSIVE InvalidateBehind(_, _, _, _)
InvalidateBehind(t, h, v, fs) ==
    IF fs = <<>> THEN v
    ELSE LET f == Head(fs)
             v1 == IF ViewerHasLayer(h, f) THEN Invalidate(t, h, v, FollowersOf(t, f)) ELSE v
         IN InvalidateBehind(t, h, v1, Tail(fs))

\* WorkflowManager._layer_data_updated for the data event of the layer object named n;
\* inViewer: the object is the viewer's layer n (its metadata is the store's flag).
LayerDataUpdated(t, h, v, n, inViewer) ==
    InvalidateBehind(t, h, IF inViewer THEN [v EXCEPT ![n] = "True"] ELSE v, FollowersOf(t, n))

\* `layer.data = value` on a layer object: the flags after the data event's callbacks ran
DataEvent(t, h, v, n, inViewer, isConnected) ==
    IF isConnected THEN LayerDataUpdated(t, h, v, n, inViewer) ELSE v

\* The value of n worked out from its recipe and, in turn, the recipes of its
\* sources (as Workflow.get does); the payload of a name without a recipe.
RECURSIVE EvaluateDeep(_, _, _, _)
EvaluateDeep(t, h, d, n) ==
    IF n \notin TaskNames(t) THEN d[n]
    ELSE LET e == GetTask(t, n)
             rs == [i \in 1..Len(e.args) |->
                      IF e.args[i].k = "str" /\ ViewerHasLayer(h, e.args[i].s)
                      THEN Val(EvaluateDeep(t, h, d, e.args[i].s)) ELSE e.args[i]]
         IN IF CanApply(e.fn, rs) THEN Apply(e.fn, rs) ELSE d[n]

\* _compute evaluating the sources from their recipes instead of reading layer.data.
ComputeArgumentsDeep(t, h, d, n) ==
    LET args == GetTask(t, n).args
    IN [i \in 1..Len(args) |->
          IF args[i].k = "str" /\ ViewerHasLayer(h, args[i].s)
          THEN Val(EvaluateDeep(t, h, d, args[i].s)) ELSE args[i]]

\* _compute assigning into the stored task instead of a copy of it.
TasksAfterComputeInPlace(t, h, d, n) ==
    LET args == GetTask(t, n).args
    IN StoreTask(t, [GetTask(t, n) EXCEPT !.args =
          [i \in 1..Len(args) |->
             IF args[i].k = "str" /\ ViewerHasLayer(h, args[i].s) THEN Val(d[args[i].s]) ELSE args[i]]])

\* _compute: the dict of tasks afterwards. `list(get_task(name)).copy()` and the slice
\* task[1:] are new lists, so the assignments arguments[i] = ... change no stored tuple.
TasksAfterCompute(t, h, d, n) == t

\* WorkflowManager._compute: the arguments handed to the function
ComputeArguments(t, h, d, n) ==
    LET args == GetTask(t, n).args
    IN [i \in 1..Len(args) |->
          IF args[i].k = "str" /\ ViewerHasLayer(h, args[i].s) THEN Val(d[args[i].s]) ELSE args[i]]

\* ------------------------------------------------------------------ Init
\* Payloads of the layers the viewer holds when the manager is installed.
InitialData == [n \in Names |-> IF n \in {"C", "E"} THEN 1 ELSE 0]

\* WorkflowManager.__init__: an empty Workflow; the viewer may hold layers already,
\* whose data events nothing has connected; the worker is started.
Installed ==
    /\ tasks = <<>>
    /\ has \in {h \in SUBSET Names : Cardinality(Names \ h) <= MaxMissing}
    /\ data = [n \in Names |-> IF n \in has THEN InitialData[n] ELSE 0]
    /\ valid = [n \in Names |-> Unset]
    /\ connected = [n \in Names |-> FALSE]
    /\ bgpc = "sleep"
    /\ bgLayer = NoLayerHeld
    /\ bgResult = 0
    /\ bgErr = None
    /\ yielded = NothingYielded

Init == Installed /\ nEvents = 0

\* ------------------------------------------------------ foreground events
Event == nEvents < MaxEvents /\ nEvents' = nEvents + 1

\* viewer.layers.events.inserted -> _layer_added
LayerAdded(n, x, flag) ==
    /\ Event
    /\ n \notin has
    /\ has' = has \cup {n}
    /\ data' = [data EXCEPT ![n] = x]
    /\ valid' = [valid EXCEPT ![n] = flag]
    /\ connected' = [connected EXCEPT ![n] = TRUE]
    /\ UNCHANGED <<tasks, bgpc, bgLayer, bgResult, bgErr, yielded>>

\* viewer.layers.events.removed -> _layer_removed
LayerRemoved(n) ==
    /\ Event
    /\ n \in has
    /\ has' = has \ {n}
    /\ data' = [data EXCEPT ![n] = 0]
    /\ valid' = [valid EXCEPT ![n] = Unset]
    /\ connected' = [connected EXCEPT ![n] = FALSE]
    /\ tasks' = WorkflowRemove(tasks, n)
    /\ bgLayer' = IF bgLayer.name = n THEN [bgLayer EXCEPT !.attached = FALSE] ELSE bgLayer
    /\ UNCHANGED <<bgpc, bgResult, bgErr, yielded>>

\* the payload of layer n is replaced from outside: layer.events.data -> _layer_data_updated
LayerDataSet(n, x) ==
    /\ Event
    /\ n \in has
    /\ data' = [data EXCEPT ![n] = x]
    /\ valid' = DataEvent(tasks, has, valid, n, TRUE, connected[n])
    /\ UNCHANGED <<tasks, has, connected, bgpc, bgLayer, bgResult, bgErr, yielded>>

\* The calls update(target_layer, function, *args) made in a run are drawn from
\* these: a chain C = inc(A), D = inc(C), E = sub(D) with sub's default y = 1,
\* and E = sub(B, C), which has two sources under different roots.
UpdateCalls ==
    { [target |-> "C", fn |-> "inc", args |-> <<Str("A")>>],
      [target |-> "D", fn |-> "inc", args |-> <<Str("C")>>],
      [target |-> "E", fn |-> "sub", args |-> <<Str("D")>>],
      [target |-> "E", fn |-> "sub", args |-> <<Str("B"), Str("C")>>] }

\* WorkflowManager.update(target_layer, function, *args), called by the owner of the
\* target once the target's payload is function(*args). _layer_name_or_value puts a
\* name in place of an argument that is the data of a layer of the viewer.
Update(target, fn, args) ==
    /\ Event
    /\ target \in has
    /\ \A i \in 1..Len(args) : args[i].k = "str" => ViewerHasLayer(has, args[i].s)
    /\ LET rs == ComputeArguments(WorkflowSet(tasks, target, fn, args, NoKwargs),
                                   has, data, target)
       IN CanApply(fn, rs) => data[target] = Apply(fn, rs)
    /\ tasks' = WorkflowSet(tasks, target, fn, args, NoKwargs)
    /\ valid' = Invalidate(tasks', has, [valid EXCEPT ![target] = "True"],
                           FollowersOf(tasks', target))
    /\ UNCHANGED <<has, data, connected, bgpc, bgLayer, bgResult, bgErr, yielded>>

\* WorkflowManager.invalidate([n]) called from outside
InvalidateCall(n) ==
    /\ Event
    /\ valid' = Invalidate(tasks, has, valid, <<n>>)
    /\ UNCHANGED <<tasks, has, data, connected, bgpc, bgLayer, bgResult, bgErr, yielded>>

\* update_layer(whatever), connected to worker.yielded
UpdateLayer ==
    /\ yielded # NothingYielded
    /\ yielded' = NothingYielded
    /\ data' = IF yielded.name # None /\ ViewerHasLayer(has, yielded.name)
               THEN [data EXCEPT ![yielded.name] = yielded.data] ELSE data
    /\ valid' = IF yielded.name # None /\ ViewerHasLayer(has, yielded.name)
                THEN DataEvent(tasks, has, valid, yielded.name, TRUE, connected[yielded.name])
                ELSE valid
    /\ UNCHANGED <<tasks, has, connected, bgpc, bgLayer, bgResult, bgErr, nEvents>>

\* ------------------------------------------------------ the thread worker
\* What _update_invalid_layer returns, which loop_run yields: it has no return value.
UpdateInvalidLayerResult == [name |-> None, data |-> 0]

\* _update_invalid_layer, `layer is None`: nothing to do, loop_run yields
BgScanNone ==
    /\ bgpc = "sleep"
    /\ SearchFirstInvalidLayer(tasks, has, valid, Roots(tasks)) = None
    /\ yielded' = UpdateInvalidLayerResult
    /\ UNCHANGED <<tasks, has, data, valid, connected, bgpc, bgLayer, bgResult, bgErr, nEvents>>

\* _update_invalid_layer: the scan found a layer
BgScanFound ==
    /\ bgpc = "sleep"
    /\ LET n == SearchFirstInvalidLayer(tasks, has, valid, Roots(tasks))
       IN /\ n # None
          /\ bgLayer' = [name |-> n, attached |-> TRUE, connected |-> connected[n],
                          recipe |-> n \in TaskNames(tasks)]
    /\ bgpc' = "selected"
    /\ UNCHANGED <<tasks, has, data, valid, connected, bgResult, bgErr, yielded, nEvents>>

\* _compute: get_task raises KeyError, which ends loop_run
BgComputeKeyError ==
    /\ bgpc = "selected"
    /\ bgLayer.name \notin TaskNames(tasks)
    /\ bgpc' = "finished"
    /\ bgErr' = "KeyError"
    /\ UNCHANGED <<tasks, has, data, valid, connected, bgLayer, bgResult, yielded, nEvents>>

\* _compute: the function raises, which ends loop_run
BgComputeRaises ==
    /\ bgpc = "selected"
    /\ bgLayer.name \in TaskNames(tasks)
    /\ bgpc' = "finished"
    /\ bgErr' = "RecomputeFailed"
    /\ UNCHANGED <<tasks, has, data, valid, connected, bgLayer, bgResult, yielded, nEvents>>

\* _compute: the function returns
BgComputeReturns ==
    /\ bgpc = "selected"
    /\ bgLayer.name \in TaskNames(tasks)
    /\ LET fn == GetTask(tasks, bgLayer.name).fn
           rs == ComputeArguments(tasks, has, data, bgLayer.name)
       IN /\ CanApply(fn, rs)
          /\ bgResult' = Apply(fn, rs)
    /\ tasks' = TasksAfterCompute(tasks, has, data, bgLayer.name)
    /\ bgpc' = "computed"
    /\ UNCHANGED <<has, data, valid, connected, bgLayer, bgErr, yielded, nEvents>>

\* _update_invalid_layer: `layer.data = ...` in the worker's thread, then loop_run yields
BgWrite ==
    /\ bgpc = "computed"
    /\ data' = IF bgLayer.attached THEN [data EXCEPT ![bgLayer.name] = bgResult] ELSE data
    /\ valid' = DataEvent(tasks, has, valid, bgLayer.name, bgLayer.attached, bgLayer.connected)
    /\ bgpc' = "sleep"
    /\ bgLayer' = NoLayerHeld
    /\ bgResult' = 0
    /\ yielded' = UpdateInvalidLayerResult
    /\ UNCHANGED <<tasks, has, connected, bgErr, nEvents>>

BgStep ==
    \/ BgScanNone
    \/ BgScanFound
    \/ BgComputeKeyError
    \/ BgComputeRaises
    \/ BgComputeReturns
    \/ BgWrite

Foreground ==
    \/ \E n \in Names : InvalidateCall(n)
    \/ \E c \in UpdateCalls : Update(c.target, c.fn, c.args)
    \/ \E n \in Names, x \in Values, flag \in {Unset, "True", "False"} : LayerAdded(n, x, flag)
    \/ \E n \in Names : LayerRemoved(n)
    \/ \E n \in Names, x \in Values : LayerDataSet(n, x)
    \/ UpdateLayer

Next == Foreground \/ BgStep

Spec == Init /\ [][Next]_vars

\* The runs of Spec with at most MaxSmallEvents foreground events.
SmallInit == Installed /\ nEvents = MaxEvents - MaxSmallEvents
SmallSpec == SmallInit /\ [][Next]_vars

\* The thread worker keeps running while loop_run has not ended; every run has
\* finitely many foreground events.
FairInit == Installed /\ nEvents = MaxEvents - MaxFairEvents
FairSpec == FairInit /\ [][Next]_vars /\ WF_vars(BgStep)

\* ------------------------------------------------------ a Workflow alone
\* Workflow.__init__: no task; there is no viewer and no worker.
WorkflowInit ==
    /\ tasks = <<>>
    /\ has = {}
    /\ data = [n \in Names |-> 0]
    /\ valid = [n \in Names |-> Unset]
    /\ connected = [n \in Names |-> FALSE]
    /\ bgpc = "none"
    /\ bgLayer = NoLayerHeld
    /\ bgResult = 0
    /\ bgErr = None
    /\ yielded = NothingYielded
    /\ nEvents = 0

Call ==
    /\ nEvents < MaxCalls
    /\ nEvents' = nEvents + 1
    /\ UNCHANGED <<has, data, valid, connected, bgpc, bgLayer, bgResult, bgErr, yielded>>

\* The names given recipes, the calls set(name, function, *args, **kwargs) and the
\* values set(name, value) made in a run are drawn from these.
WfNames == {"A", "B", "C"}
WfCalls ==
    { [fn |-> "inc", args |-> <<Str("A")>>, kwargs |-> NoKwargs],
      [fn |-> "inc", args |-> <<>>, kwargs |-> [p \in {"x"} |-> Str("B")]],
      [fn |-> "sub", args |-> <<Str("A")>>, kwargs |-> NoKwargs],
      [fn |-> "sub", args |-> <<Str("B"), Str("B")>>, kwargs |-> NoKwargs],
      [fn |-> "sub", args |-> <<>>, kwargs |-> [p \in {"x", "y"} |-> IF p = "x" THEN Str("C") ELSE Str("A")]],
      [fn |-> "sub", args |-> <<Val(1)>>, kwargs |-> [p \in {"y"} |-> Val(0)]],
      [fn |-> "sub", args |-> <<>>, kwargs |-> [p \in {"y"} |-> Val(0)]] }
WfLiterals == {Str("A"), Val(0), Arr(1)}

\* workflow.set(n, function, *args, **kwargs); a TypeError of sig.bind leaves the dict as it is
WfSet(n, fn, args, kwargs) ==
    /\ Call
    /\ tasks' = IF CanBind(fn, args, kwargs) THEN WorkflowSet(tasks, n, fn, args, kwargs) ELSE tasks

\* workflow.set(n, value)
WfSetLiteral(n, value) ==
    /\ Call
    /\ tasks' = WorkflowSetLiteral(tasks, n, value)

\* workflow.remove(n)
WfRemove(n) ==
    /\ Call
    /\ tasks' = WorkflowRemove(tasks, n)

WorkflowNext ==
    \/ \E n \in WfNames : WfRemove(n)
    \/ \E n \in WfNames, x \in WfLiterals : WfSetLiteral(n, x)
    \/ \E n \in WfNames, c \in WfCalls : WfSet(n, c.fn, c.args, c.kwargs)

WorkflowSpec == WorkflowInit /\ [][WorkflowNext]_vars

\* ================================================================ claims
\* Names reachable from n by one or more followers_of steps.
RECURSIVE Descendants(_, _)
Descendants(t, n) ==
    LET F == SeqToSet(FollowersOf(t, n))
    IN F \cup UNION {Descendants(t, m) : m \in F}

\* `layer.data = ...` on the viewer's layer n with _layer_data_updated connected:
\* from outside, or by the worker.
DataChanged(n) ==
    \/ connected[n] /\ \E x \in Values : LayerDataSet(n, x)
    \/ BgWrite /\ bgLayer.name = n /\ bgLayer.attached /\ bgLayer.connected

\* C1: when the payload of record n changes, n is marked valid and every node with a
\* record reachable from n by one or more followers_of steps (direct followers
\* included) has its validity flag false afterwards.
C1_DataChangeInvalidatesAllDependents ==
    [][\A n \in Names :
          DataChanged(n) =>
             /\ valid'[n] = "True"
             /\ \A m \in Descendants(tasks, n) \cap has : valid'[m] = "False"]_vars

\* C2: after invalidate({n}), every node reachable from n by zero or more followers_of
\* steps that has a record has its validity flag false, also when n or a node on the
\* path has no record.
C2_InvalidateReachesAllDescendants ==
    [][\A n \in Names :
          InvalidateCall(n) =>
             \A m \in ({n} \cup Descendants(tasks, n)) \cap has : valid'[m] = "False"]_vars

\* A source of a recipe is fine when it is a root or exists with its flag true.
SourceFresh(s) == s \notin TaskNames(tasks) \/ (s \in has /\ valid[s] = "True")

\* The payload of n is its recipe's function applied to the current payloads of its sources.
PayloadConsistent(n) ==
    LET rs == ComputeArguments(tasks, has, data, n)
        fn == GetTask(tasks, n).fn
    IN CanApply(fn, rs) => data[n] = Apply(fn, rs)

\* A derived record whose flag is true and whose sources all exist with flag true or
\* are roots holds the payload its recipe gives for the current payloads of its sources.
ValidImpliesConsistent ==
    \A n \in has \cap TaskNames(tasks) :
       (valid[n] = "True" /\ \A s \in SeqToSet(SourcesOf(tasks, n)) : SourceFresh(s))
          => PayloadConsistent(n)

\* The foreground overwrites the payload of a derived record.
OverwritesDerived == \E n \in TaskNames(tasks), x \in Values : LayerDataSet(n, x)

\* C3: a derived record whose flag is true and whose sources all exist with flag true
\* or are roots holds the payload its recipe gives for the current payloads of its
\* sources, in every reachable state: no step of the foreground or of the worker
\* takes a state where this holds to one where it does not (the foreground
\* overwriting a derived record's payload aside).
C3_ValidImpliesConsistent ==
    [][(ValidImpliesConsistent /\ ~OverwritesDerived) => ValidImpliesConsistent']_vars

\* Names reachable from the roots by zero or more followers_of steps.
ReachableFromRoots(t) ==
    SeqToSet(Roots(t)) \cup UNION {Descendants(t, r) : r \in SeqToSet(Roots(t))}

\* No record reachable from the roots has its flag false.
NoInvalidReachable == \A n \in ReachableFromRoots(tasks) \cap has : valid[n] # "False"

\* C4: a run has finitely many foreground events (MaxFairEvents); unless an exception
\* ends the worker (a failing recipe function does), with the worker scheduled fairly
\* the system reaches, and stays in, a state where no record reachable from the roots
\* has its flag false.
C4_RecomputeConverges == <>[](NoInvalidReachable \/ bgpc = "finished")

\* C5: the tick that recomputes node n leaves n's record with the computed payload and
\* its flag true, and makes no other invalid node valid.
C5_TickFixesExactlyOneNode ==
    [][BgWrite =>
          /\ bgLayer.name \in has'
          /\ data'[bgLayer.name] = bgResult
          /\ valid'[bgLayer.name] = "True"
          /\ \A m \in Names \ {bgLayer.name} : valid[m] = "False" => valid'[m] = "False"]_vars

\* C6: when the recipe function fails in the worker, the loop does not stop, and the
\* node's flag and payload are as before.
C6_LoopSurvivesRecomputeFailure ==
    [][BgComputeRaises =>
          /\ bgpc' # "finished"
          /\ valid'[bgLayer.name] = valid[bgLayer.name]
          /\ data'[bgLayer.name] = data[bgLayer.name]]_vars

\* C7: no step of the worker writes a payload or a validity flag; the writes of a
\* recompute are made by update_layer from what the worker yielded.
C7_WorkerNeverWritesStore == [][BgStep => UNCHANGED <<data, valid>>]_vars

\* The worker holds a layer that had a recipe when the scan selected it and was removed
\* from the viewer since.
HoldsRemovedLayer == bgLayer.name # None /\ ~bgLayer.attached /\ bgLayer.recipe

\* C8: when record n is removed after the scan selected it and before the result is
\* applied, the result is dropped: no record appears, no payload or flag changes, and
\* the loop does not end in an error.
C8_RemovedWhileSelectedIsDiscarded ==
    [][(HoldsRemovedLayer /\ (BgComputeKeyError \/ BgComputeReturns \/ BgWrite)) =>
          /\ bgpc' # "finished"
          /\ UNCHANGED <<has, data, valid>>]_vars

\* Layer k of the breadth-first scan: the roots, then the followers of the names of
\* the layer before that have a record.
RECURSIVE ScanLayer(_, _, _)
ScanLayer(t, h, k) ==
    IF k = 0 THEN SeqToSet(Roots(t))
    ELSE UNION {SeqToSet(FollowersOf(t, i)) : i \in ScanLayer(t, h, k - 1) \cap h}

Unreached == Cardinality(Names) + 1
\* The first layer that holds n.
LayerOf(t, h, n) ==
    LET ks == {k \in 0..Cardinality(Names) : n \in ScanLayer(t, h, k)}
    IN IF ks = {} THEN Unreached ELSE CHOOSE k \in ks : \A j \in ks : k <= j

Eligible == {m \in has : valid[m] = "False"}

\* The number of followers_of steps from the roots to n, whatever has a record.
Distance(t, n) == LayerOf(t, Names, n)

\* C9: when the scan selects a node k followers_of steps from the roots, no record with
\* a false flag is fewer steps from the roots.
C9_ScanSelectsMinimalLayer ==
    [][BgScanFound =>
          \A m \in Eligible : Distance(tasks, m) >= Distance(tasks, bgLayer'.name)]_vars

\* C10: the scan selects no node that is reachable from the roots only through names
\* without a record.
C10_ScanStopsAtMissingRecords ==
    [][BgScanFound => LayerOf(tasks, has, bgLayer'.name) # Unreached]_vars

\* Records the breadth-first scan reaches: in some layer from the roots on.
ScanReachable(t, h) == {n \in h : LayerOf(t, h, n) # Unreached}

\* C11: a record without a validity flag is treated as invalid: a scan that selects
\* nothing leaves no record without a flag among the records it reaches.
C11_UnsetFlagTreatedAsInvalid ==
    [][BgScanNone => \A n \in ScanReachable(tasks, has) : valid[n] # Unset]_vars

\* C11 as amended: a record without a validity flag is treated as valid: the scan
\* selects only records whose flag is set and false.
C11_ScanSelectsOnlyFalseFlag ==
    [][BgScanFound => valid[bgLayer'.name] = "False"]_vars

\* The scan went past a root record without a flag and selected a record after it.
C11_Witness ==
    /\ bgpc = "selected"
    /\ bgLayer.name \in has /\ valid[bgLayer.name] = "False"
    /\ \E r \in SeqToSet(Roots(tasks)) \cap has : valid[r] = Unset

\* C12: after any sequence of set and remove, with function recipes and values alike,
\* followers_of and sources_of answer for all names, and m is in followers_of(n)
\* exactly if n is in sources_of(m).
C12_FollowersInverseOfSources ==
    \A m \in Names, n \in Names :
       /\ ~FollowersOfRaises(tasks, n)
       /\ ~SourcesOfRaises(tasks, m)
       /\ m \in SeqToSet(FollowersOf(tasks, n)) <=> n \in SeqToSet(SourcesOf(tasks, m))

\* Some function recipe has the string n among its arguments.
Referenced(t, n) ==
    \E i \in 1..Len(t) : t[i].fn # NotCallable /\ \E j \in 1..Len(t[i].args) : t[i].args[j] = Str(n)

\* C13: whenever roots() answers, it lists, each once, exactly the names that are a
\* string argument of some function recipe and have no recipe; a stored value
\* contributes none.
C13_RootsExact ==
    ~RootsRaises(tasks) =>
       /\ SeqToSet(Roots(tasks)) = {n \in Names : Referenced(tasks, n) /\ n \notin TaskNames(tasks)}
       /\ Cardinality(SeqToSet(Roots(tasks))) = Len(Roots(tasks))

\* C14: remove(n) deletes the recipe of n and leaves every other recipe as it is;
\* afterwards (whenever roots() answers) n is a root exactly if a remaining recipe
\* has n as an argument; on a name without a recipe it changes nothing.
C14_RemoveDeletesOnlyThatRecipe ==
    [][\A n \in WfNames :
          WfRemove(n) =>
             /\ TaskNames(tasks') = TaskNames(tasks) \ {n}
             /\ \A m \in TaskNames(tasks') : GetTask(tasks', m) = GetTask(tasks, m)
             /\ n \notin TaskNames(tasks) => tasks' = tasks
             /\ ~RootsRaises(tasks') =>
                   (n \in SeqToSet(Roots(tasks')) <=> Referenced(tasks', n))]_vars

\* C15: update(n, ...) leaves the flag of n true and sets to false the flag of every
\* record reachable from n by one or more followers_of steps, for a new recipe and
\* for one that replaces an earlier recipe of n.
C15_UpdateMarksValidAndInvalidatesDependents ==
    [][\A c \in UpdateCalls :
          Update(c.target, c.fn, c.args) =>
             /\ valid'[c.target] = "True"
             /\ \A m \in Descendants(tasks', c.target) \cap has : valid'[m] = "False"]_vars

\* Three calls of update, the last for C: C is valid, and its follower D and D's
\* follower E are invalid.
C15_Witness ==
    /\ nEvents = MaxEvents - MaxSmallEvents + 3
    /\ TaskNames(tasks) = {"C", "D", "E"}
    /\ "D" \in Descendants(tasks, "C") /\ "E" \in Descendants(tasks, "D")
    /\ valid["C"] = "True" /\ valid["D"] = "False" /\ valid["E"] = "False"

\* Lists of at most two names.
NameLists == {<<>>} \cup {<<n>> : n \in Names} \cup {<<n, m>> : n \in Names, m \in Names}

\* C16: invalidate(S) twice in a row leaves the flags that invalidate(S) once leaves,
\* for every list S of names and every store the program gets to; a call of
\* invalidate changes no recipe and no payload, and a second call after it no flag.
C16_InvalidateIdempotent ==
    [][/\ \A n \in Names :
             InvalidateCall(n) =>
                /\ tasks' = tasks /\ data' = data
                /\ Invalidate(tasks', has', valid', <<n>>) = valid'
       /\ (nEvents' # nEvents /\ \E n \in Names : InvalidateCall(n)) =>
             \A S \in NameLists :
                LET once == Invalidate(tasks, has, valid, S)
                IN Invalidate(tasks, has, once, S) = once]_vars

\* invalidate has marked a record and a follower of it, and a further call on another
\* name would change flags.
C16_Witness ==
    /\ \E n \in has : \E m \in SeqToSet(FollowersOf(tasks, n)) \cap has :
          valid[n] = "False" /\ valid[m] = "False"
    /\ \E S \in NameLists : Invalidate(tasks, has, valid, S) # valid

\* The argument _compute hands over for the argument a of a recipe.
LiveArgument(a) == IF a.k = "str" /\ a.s \in has THEN Val(data[a.s]) ELSE a

\* C18: the recompute of n applies the function of n's recipe, once, to the recipe's
\* arguments in their order, with the payload a record has at that moment in place
\* of each string that names a record, and every other argument as it is.
C18_ComputeUsesLivePayloads ==
    [][BgComputeReturns =>
          LET e == GetTask(tasks, bgLayer.name)
              live == [i \in 1..Len(e.args) |-> LiveArgument(e.args[i])]
          IN /\ \A i \in 1..Len(live) : live[i].k = "val"
             /\ bgResult' = Apply(e.fn, live)]_vars

\* D was recomputed while its source C, valid when the scan selected D, is invalid again.
C18_Witness ==
    /\ bgpc = "computed"
    /\ bgLayer.name = "D" /\ "D" \in TaskNames(tasks)
    /\ SourcesOf(tasks, "D") = <<"C">>
    /\ "C" \in has /\ "C" \in TaskNames(tasks) /\ valid["C"] = "False"
    /\ bgResult = (data["C"] + 1) % NumValues

\* C19: the node the scan hands to the recompute has a recipe: the scan selects no root.
C19_ScanSelectsNoRoot ==
    [][BgScanFound => bgLayer'.name \in TaskNames(tasks)]_vars

\* C20: no step of the worker (scan, recompute, write) and no call of invalidate
\* changes a recipe; invalidate sets no flag to true and changes no payload.
C20_RecipesUntouched ==
    [][/\ BgStep => tasks' = tasks
       /\ \A n \in Names :
             InvalidateCall(n) =>
                /\ tasks' = tasks /\ data' = data
                /\ \A m \in Names : valid'[m] = "True" => valid[m] = "True"]_vars

\* A recompute has run for a recipe that still names its source by a string, while
\* another record is invalid.
C20_Witness ==
    /\ bgpc = "computed"
    /\ bgLayer.name \in TaskNames(tasks)
    /\ \E i \in 1..Len(GetTask(tasks, bgLayer.name).args) :
          /\ GetTask(tasks, bgLayer.name).args[i].k = "str"
          /\ GetTask(tasks, bgLayer.name).args[i].s \in has
    /\ \E m \in has \ {bgLayer.name} : valid[m] = "False"

\* The place of parameter p in the declaration of fn.
ParamIndex(fn, p) == CHOOSE i \in 1..Arity(fn) : Params(fn)[i] = p

\* C17: right after set(n, f, args...), get_task(n) answers with f and one argument
\* per declared parameter, in the order of declaration: the positional arguments,
\* the keyword arguments at the places of their parameters, and the declared default
\* wherever the call gave none; an earlier recipe of n is gone. After set(n, value)
\* it answers with the value as given. get_task fails exactly on the names that have
\* no recipe.
C17_SetThenGetTask ==
    [][/\ \A n \in WfNames, c \in WfCalls :
             (WfSet(n, c.fn, c.args, c.kwargs) /\ CanBind(c.fn, c.args, c.kwargs)) =>
                LET task == GetTask(tasks', n)
                IN /\ ~GetTaskRaises(tasks', n)
                   /\ task.fn = c.fn
                   /\ Len(task.args) = Arity(c.fn)
                   /\ \A i \in 1..Len(c.args) : task.args[i] = c.args[i]
                   /\ \A p \in DOMAIN c.kwargs : task.args[ParamIndex(c.fn, p)] = c.kwargs[p]
                   /\ \A i \in (Len(c.args) + 1)..Arity(c.fn) :
                         Params(c.fn)[i] \notin DOMAIN c.kwargs =>
                            task.args[i] = Defaults(c.fn)[i - MinArgs(c.fn)]
                   /\ Cardinality({i \in 1..Len(tasks') : tasks'[i].name = n}) = 1
       /\ \A n \in WfNames, x \in WfLiterals :
             WfSetLiteral(n, x) =>
                /\ ~GetTaskRaises(tasks', n)
                /\ GetTask(tasks', n).fn = NotCallable
                /\ GetTask(tasks', n).lit = x
                /\ Cardinality({i \in 1..Len(tasks') : tasks'[i].name = n}) = 1
       /\ \A n \in Names :
             GetTaskRaises(tasks', n) <=> (\A i \in 1..Len(tasks') : tasks'[i].name # n)]_vars

\* After the last call of a run the dict holds a recipe of sub with the declared
\* default of y and, beside it, a stored array.
C17_Witness ==
    /\ nEvents = MaxCalls
    /\ Len(tasks) = 2
    /\ \E i \in 1..Len(tasks) : tasks[i].fn = "sub" /\ tasks[i].args = <<Str("A"), Val(1)>>
    /\ \E i \in 1..Len(tasks) : tasks[i].fn = NotCallable /\ tasks[i].lit = Arr(1)

====
